---- MODULE Spec2Model ----
(***************************************************************************)
(* Model of singleton.h (Singleton, InstanceSafetyHelper, PointerWrapper,  *)
(* SingletonPostConstructionHelper) and collectable.h (Collector,          *)
(* AutoCollectable).                                                       *)
(*                                                                         *)
(* The singleton types are two user types A and B, whose constructors and  *)
(* postConstruction hooks are arbitrary client code (they may call any     *)
(* operation of the library), and Coll, the Collector<Item> of the         *)
(* collectable items.  Every library function is a frame on its thread's   *)
(* call stack and advances one source statement per step.  assert() is     *)
(* enabled: a failed assertion aborts the process.                         *)
(***************************************************************************)
EXTENDS Integers, Sequences, FiniteSets, TLC

\* ---------------------------------------------------------------- bounds
MaxCalls == 4       \* library calls made by the client code in one run
MaxObjs  == 3       \* singleton objects allocated in one run
MaxItems == 2       \* distinct storage addresses of collectable items
MaxCallsMT == 2     \* library calls made in one run of two threads

Types   == {"A", "B", "Coll"}
Threads == {1, 2}
Addrs   == 1..MaxItems

VARIABLES
    wrapper,        \* InstanceSafetyHelper<T>::wrapper, per singleton type
    mutex,          \* InstanceSafetyHelper<T>::mutex: 0 free, else the owner
    s_construct_stack_size,
    s_classes_under_construction,
    m_container,    \* Collector::m_container of the Collector object
    m_registered_in_collector,  \* AutoCollectable field, per item address
    itemAlive,      \* addresses that hold a constructed item
    obj,            \* the singleton objects allocated so far, by pointer
    stack,          \* call stack of every thread
    active,         \* the threads the program runs
    halted,         \* "" while running, else why the process stopped
    calls,          \* library calls made so far
    clock,          \* logical time of construction starts and completions
    completed,      \* per type: pointer its last completed creation returned
    collDestroyed,  \* destructInstance of the Collector has been executed
    ev              \* what the last step did

vars == <<wrapper, mutex, s_construct_stack_size, s_classes_under_construction,
          m_container, m_registered_in_collector, itemAlive, obj, stack,
          active, halted, calls, clock, completed, collDestroyed, ev>>

\* ------------------------------------------------------------- data
NullWrapper == [initialized |-> FALSE, raw_pointer |-> 0]

NoEv == [op |-> "none", ty |-> "", val |-> 0, aux |-> <<>>]

Ev(op, ty, val, aux) == [op |-> op, ty |-> ty, val |-> val, aux |-> aux]

Frame(k, ty, pc, p) ==
    [k |-> k, ty |-> ty, pc |-> pc, p |-> p, i |-> 0, snap |-> <<>>,
     valid |-> TRUE, w |-> NullWrapper]

Top(t) == stack[t][Len(stack[t])]

Below(t) == stack[t][Len(stack[t]) - 1]

SetTop(stk, t, f) == [stk EXCEPT ![t][Len(stk[t])] = f]

PushFrame(stk, t, f) == [stk EXCEPT ![t] = Append(@, f)]

PopFrame(stk, t) == [stk EXCEPT ![t] = SubSeq(@, 1, Len(@) - 1)]

Running(t) == t \in active /\ halted = ""

\* The library calls one run makes: of a single thread, or of two together.
CallBudget == IF active = {1} THEN MaxCalls ELSE MaxCallsMT

At(t, kinds, pc) ==
    /\ Running(t)
    /\ stack[t] # <<>>
    /\ Top(t).k \in kinds
    /\ Top(t).pc = pc

\* Client code runs at the top level of a thread and in the bodies of the
\* constructors and hooks of the user types; the Collector's are the library's.
InBody(t) ==
    /\ stack[t] # <<>>
    /\ Top(t).k \in {"ctor", "hook"}
    /\ Top(t).pc = "body"

CallSite(t) ==
    /\ Running(t)
    /\ calls < CallBudget
    /\ \/ stack[t] = <<>>
       \/ InBody(t) /\ Top(t).ty # "Coll"

\* Collectable items are created, destroyed and iterated by the top-level code
\* of a thread, as in the demo programs.
ItemSite(t) ==
    /\ Running(t)
    /\ calls < CallBudget
    /\ stack[t] = <<>>

\* Every range-for over s_classes_under_construction that is in progress holds
\* iterators into the vector; push_back and clear invalidate them.
InvalidateIterators(stk) ==
    [t \in Threads |->
        [j \in 1..Len(stk[t]) |->
            IF stk[t][j].pc = "drain"
            THEN [stk[t][j] EXCEPT !.valid = FALSE]
            ELSE stk[t][j]]]

Init ==
    /\ wrapper = [T \in Types |-> NullWrapper]
    /\ mutex = [T \in Types |-> 0]
    /\ s_construct_stack_size = 0
    /\ s_classes_under_construction = <<>>
    /\ m_container = {}
    /\ m_registered_in_collector = [a \in Addrs |-> FALSE]
    /\ itemAlive = {}
    /\ obj = <<>>
    /\ stack = [t \in Threads |-> <<>>]
    /\ active = {1}
    /\ halted = ""
    /\ calls = 0
    /\ clock = 0
    /\ completed = [T \in Types |-> 0]
    /\ collDestroyed = FALSE
    /\ ev = NoEv

\* What an action leaves alone, by group.
UnchHolder == UNCHANGED <<wrapper, mutex>>
UnchCoord  == UNCHANGED <<s_construct_stack_size, s_classes_under_construction>>
UnchColl   == UNCHANGED <<m_container, m_registered_in_collector, itemAlive>>
UnchGhost  == UNCHANGED <<clock, completed, collDestroyed>>
UnchEnv    == UNCHANGED <<active, calls>>

Abort(why) ==
    /\ halted' = why
    /\ UNCHANGED <<wrapper, mutex, s_construct_stack_size,
                   s_classes_under_construction, m_container,
                   m_registered_in_collector, itemAlive, obj, stack, active,
                   calls, clock, completed, collDestroyed>>


\* ------------------------------------------------ Singleton::createInstance
\* Faulty variant: createInstance does not check that the holder is empty.
CreatePrecondition_Unchecked(T) == TRUE

\* singleton.h:222 and 224: assert(helper->wrapper.raw_pointer == nullptr)
CreatePrecondition(T) == wrapper[T].raw_pointer = 0

\* The object whose constructor body made the call that frame number n of
\* thread t serves, or 0.
Creator(t, n) ==
    IF n > 1 /\ stack[t][n - 1].k = "ctor" THEN stack[t][n - 1].p ELSE 0

CreateInstance_Call(t, T) ==
    /\ CallSite(t)
    /\ stack' = PushFrame(stack, t, Frame("create", T, "assert1", 0))
    /\ calls' = calls + 1
    /\ ev' = Ev("call_create", T, 0, <<>>)
    /\ UnchHolder /\ UnchCoord /\ UnchColl /\ UnchGhost
    /\ UNCHANGED <<obj, active, halted>>

CreateInstance_Assert1(t) ==
    /\ At(t, {"create"}, "assert1")
    /\ LET T == Top(t).ty IN
       IF CreatePrecondition(T)
       THEN /\ stack' = SetTop(stack, t, [Top(t) EXCEPT !.pc = "lock"])
            /\ ev' = Ev("create_pass", T, 0, <<>>)
            /\ UnchHolder /\ UnchCoord /\ UnchColl /\ UnchGhost /\ UnchEnv
            /\ UNCHANGED <<obj, halted>>
       ELSE /\ Abort("assert:createInstance")
            /\ ev' = Ev("create_fail", T, 0, <<>>)

\* std::mutex::lock() on a free mutex.  A mutex another thread owns makes the
\* caller wait: no step is enabled.
Mutex_Lock(t) ==
    /\ At(t, {"create", "Instance", "dtor"}, "lock")
    /\ mutex[Top(t).ty] = 0
    /\ mutex' = [mutex EXCEPT ![Top(t).ty] = t]
    /\ stack' = SetTop(stack, t,
                  [Top(t) EXCEPT !.pc = IF Top(t).k = "Instance"
                                        THEN "check2" ELSE "assert2"])
    /\ ev' = Ev("lock", Top(t).ty, t, <<>>)
    /\ UNCHANGED wrapper
    /\ UnchCoord /\ UnchColl /\ UnchGhost /\ UnchEnv
    /\ UNCHANGED <<obj, halted>>

\* std::mutex::lock() by the thread that owns the mutex is undefined: the
\* thread waits for itself forever, or the library detects it and throws
\* std::system_error, which nothing catches.
Mutex_Relock(t) ==
    /\ At(t, {"create", "Instance", "dtor"}, "lock")
    /\ mutex[Top(t).ty] = t
    /\ ev' = Ev("relock", Top(t).ty, t, <<>>)
    /\ \/ /\ stack' = SetTop(stack, t, [Top(t) EXCEPT !.pc = "deadlocked"])
          /\ UnchHolder /\ UnchCoord /\ UnchColl /\ UnchGhost /\ UnchEnv
          /\ UNCHANGED <<obj, halted>>
       \/ Abort("ub:relock")

CreateInstance_Assert2(t) ==
    /\ At(t, {"create"}, "assert2")
    /\ LET T == Top(t).ty IN
       IF CreatePrecondition(T)
       THEN /\ stack' = SetTop(stack, t, [Top(t) EXCEPT !.pc = "alloc"])
            /\ ev' = NoEv
            /\ UnchHolder /\ UnchCoord /\ UnchColl /\ UnchGhost /\ UnchEnv
            /\ UNCHANGED <<obj, halted>>
       ELSE /\ Abort("assert:createInstance")
            /\ ev' = Ev("create_fail", T, 0, <<>>)

\* ------------------------------------------------------ Singleton::Instance
Instance_Call(t, T) ==
    /\ CallSite(t)
    /\ stack' = PushFrame(stack, t, Frame("Instance", T, "check1", 0))
    /\ calls' = calls + 1
    /\ ev' = Ev("call_Instance", T, 0, <<>>)
    /\ UnchHolder /\ UnchCoord /\ UnchColl /\ UnchGhost
    /\ UNCHANGED <<obj, active, halted>>

\* singleton.h:193: the unguarded check
Instance_Check1(t) ==
    /\ At(t, {"Instance"}, "check1")
    /\ stack' = SetTop(stack, t,
                  [Top(t) EXCEPT !.pc = IF wrapper[Top(t).ty].raw_pointer = 0
                                        THEN "lock" ELSE "ret"])
    /\ ev' = NoEv
    /\ UnchHolder /\ UnchCoord /\ UnchColl /\ UnchGhost /\ UnchEnv
    /\ UNCHANGED <<obj, halted>>

\* Faulty variant: Instance constructs once it holds the mutex, without the
\* second check.
Instance_Check2_Unchecked(t) ==
    /\ At(t, {"Instance"}, "check2")
    /\ stack' = SetTop(stack, t, [Top(t) EXCEPT !.pc = "alloc"])
    /\ ev' = NoEv
    /\ UnchHolder /\ UnchCoord /\ UnchColl /\ UnchGhost /\ UnchEnv
    /\ UNCHANGED <<obj, halted>>

\* singleton.h:195: the check under the mutex
Instance_Check2(t) ==
    /\ At(t, {"Instance"}, "check2")
    /\ stack' = SetTop(stack, t,
                  [Top(t) EXCEPT !.pc = IF wrapper[Top(t).ty].raw_pointer = 0
                                        THEN "alloc" ELSE "unlock"])
    /\ ev' = NoEv
    /\ UnchHolder /\ UnchCoord /\ UnchColl /\ UnchGhost /\ UnchEnv
    /\ UNCHANGED <<obj, halted>>

\* ------------------------------- the construction both functions share
\* Type *data = malloc(sizeof(Type)); helper->wrapper.raw_pointer = data;
Construct_Alloc(t) ==
    /\ At(t, {"create", "Instance"}, "alloc")
    /\ Len(obj) < MaxObjs
    /\ LET T == Top(t).ty
           data == Len(obj) + 1
       IN /\ obj' = Append(obj, [ty |-> T, st |-> "building", hooks |-> 0,
                                 started |-> 0, done |-> 0, dtors |-> 0,
                                 by |-> Creator(t, Len(stack[t]))])
          /\ wrapper' = [wrapper EXCEPT ![T].raw_pointer = data]
          /\ stack' = SetTop(stack, t,
                        [Top(t) EXCEPT !.pc = "push_inc", !.p = data])
          /\ ev' = Ev("alloc", T, data, <<>>)
    /\ UNCHANGED mutex
    /\ UnchCoord /\ UnchColl /\ UnchGhost /\ UnchEnv
    /\ UNCHANGED halted

\* SingletonPostConstructionHelper::push, first statement
Push_Inc(t) ==
    /\ At(t, {"create", "Instance"}, "push_inc")
    /\ s_construct_stack_size' = s_construct_stack_size + 1
    /\ stack' = SetTop(stack, t, [Top(t) EXCEPT !.pc = "push_back"])
    /\ ev' = NoEv
    /\ UNCHANGED s_classes_under_construction
    /\ UnchHolder /\ UnchColl /\ UnchGhost /\ UnchEnv
    /\ UNCHANGED <<obj, halted>>

\* Faulty variant: the new object is queued in front.
PushBack_Front(v, e) == <<e>> \o v

\* std::vector::push_back
PushBack(v, e) == Append(v, e)

\* SingletonPostConstructionHelper::push, second statement
Push_Back(t) ==
    /\ At(t, {"create", "Instance"}, "push_back")
    /\ s_classes_under_construction' =
           PushBack(s_classes_under_construction, Top(t).p)
    /\ stack' = SetTop(InvalidateIterators(stack), t,
                       [Top(t) EXCEPT !.pc = "ctor"])
    /\ clock' = clock + 1
    /\ obj' = [obj EXCEPT ![Top(t).p].started = clock + 1]
    /\ ev' = Ev("push", Top(t).ty, Top(t).p, <<>>)
    /\ UNCHANGED <<s_construct_stack_size, completed, collDestroyed>>
    /\ UnchHolder /\ UnchColl /\ UnchEnv
    /\ UNCHANGED halted

\* new (data) Type(args...): the constructor starts.  The Collector's
\* constructor default-initialises m_container.
Construct_Ctor(t) ==
    /\ At(t, {"create", "Instance"}, "ctor")
    /\ stack' = PushFrame(SetTop(stack, t, [Top(t) EXCEPT !.pc = "init"]), t,
                          Frame("ctor", Top(t).ty, "body", Top(t).p))
    /\ m_container' = IF Top(t).ty = "Coll" THEN {} ELSE m_container
    /\ ev' = Ev("ctor", Top(t).ty, Top(t).p, <<>>)
    /\ UNCHANGED <<m_registered_in_collector, itemAlive>>
    /\ UnchHolder /\ UnchCoord /\ UnchGhost /\ UnchEnv
    /\ UNCHANGED <<obj, halted>>

\* The constructor body returns: the object's lifetime begins.
Ctor_Return(t) ==
    /\ Running(t)
    /\ InBody(t)
    /\ Top(t).k = "ctor"
    /\ stack' = PopFrame(stack, t)
    /\ clock' = clock + 1
    /\ obj' = [obj EXCEPT ![Top(t).p].st = "alive",
                          ![Top(t).p].done = clock + 1]
    /\ ev' = Ev("ctor_ret", Top(t).ty, Top(t).p, <<>>)
    /\ UNCHANGED <<completed, collDestroyed>>
    /\ UnchHolder /\ UnchCoord /\ UnchColl /\ UnchEnv
    /\ UNCHANGED halted

\* Faulty variant: the pointer is stored and the holder is never marked initialized.
Construct_Init_PointerOnly(t) ==
    /\ At(t, {"create", "Instance"}, "init")
    /\ wrapper' = [wrapper EXCEPT ![Top(t).ty].raw_pointer = Top(t).p]
    /\ stack' = SetTop(stack, t, [Top(t) EXCEPT !.pc = "pop_assert"])
    /\ ev' = Ev("init", Top(t).ty, Top(t).p, <<>>)
    /\ UNCHANGED mutex
    /\ UnchCoord /\ UnchColl /\ UnchGhost /\ UnchEnv
    /\ UNCHANGED <<obj, halted>>

\* helper->wrapper.raw_pointer = <result of new>; ...initialized = true;
Construct_Init(t) ==
    /\ At(t, {"create", "Instance"}, "init")
    /\ wrapper' = [wrapper EXCEPT ![Top(t).ty] =
                       [initialized |-> TRUE, raw_pointer |-> Top(t).p]]
    /\ stack' = SetTop(stack, t, [Top(t) EXCEPT !.pc = "pop_assert"])
    /\ ev' = Ev("init", Top(t).ty, Top(t).p, <<>>)
    /\ UNCHANGED mutex
    /\ UnchCoord /\ UnchColl /\ UnchGhost /\ UnchEnv
    /\ UNCHANGED <<obj, halted>>

\* ------------------------------------ SingletonPostConstructionHelper::pop
\* singleton.h:140: assert(s_construct_stack_size > 0)
Pop_Assert(t) ==
    /\ At(t, {"create", "Instance"}, "pop_assert")
    /\ IF s_construct_stack_size > 0
       THEN /\ stack' = SetTop(stack, t, [Top(t) EXCEPT !.pc = "pop_dec"])
            /\ ev' = NoEv
            /\ UnchHolder /\ UnchCoord /\ UnchColl /\ UnchGhost /\ UnchEnv
            /\ UNCHANGED <<obj, halted>>
       ELSE /\ Abort("assert:pop")
            /\ ev' = Ev("pop_fail", Top(t).ty, 0, <<>>)

\* Faulty variant: every pop runs the queued hooks, whatever the depth.
PopDrains_Always(size) == TRUE

\* singleton.h:141: if (!--s_construct_stack_size), on the decremented value
PopDrains(size) == size = 0

\* The decrement; when it reaches zero the range-for takes begin() and end().
Pop_Dec(t) ==
    /\ At(t, {"create", "Instance"}, "pop_dec")
    /\ s_construct_stack_size' = s_construct_stack_size - 1
    /\ stack' = SetTop(stack, t,
                  IF PopDrains(s_construct_stack_size - 1)
                  THEN [Top(t) EXCEPT !.pc = "drain", !.i = 1,
                                      !.snap = s_classes_under_construction,
                                      !.valid = TRUE]
                  ELSE [Top(t) EXCEPT !.pc = "unlock"])
    /\ ev' = Ev("pop", Top(t).ty, s_construct_stack_size - 1, <<>>)
    /\ UNCHANGED s_classes_under_construction
    /\ UnchHolder /\ UnchColl /\ UnchGhost /\ UnchEnv
    /\ UNCHANGED <<obj, halted>>

\* ptr->postConstruction(): the hook of object id starts, called by the loop
\* of thread t's top frame, which moves on to the next element.
InvokeHook(t, id) ==
    /\ stack' = PushFrame(SetTop(stack, t, [Top(t) EXCEPT !.i = @ + 1]), t,
                          Frame("hook", obj[id].ty, "body", id))
    /\ obj' = [obj EXCEPT ![id].hooks = @ + 1]
    /\ ev' = Ev("hook", obj[id].ty, id,
                IF Top(t).i = 1 THEN <<>> ELSE <<Top(t).snap[Top(t).i - 1]>>)
    /\ UnchHolder /\ UnchCoord /\ UnchColl /\ UnchGhost /\ UnchEnv
    /\ UNCHANGED halted

\* One iteration of the range-for, its iterators valid and the element a
\* live object.
Drain_Hook(t) ==
    /\ At(t, {"create", "Instance"}, "drain")
    /\ Top(t).i <= Len(Top(t).snap)
    /\ Top(t).valid
    /\ obj[s_classes_under_construction[Top(t).i]].st # "dead"
    /\ InvokeHook(t, s_classes_under_construction[Top(t).i])

\* One iteration after the vector was changed under the loop (a hook pushed or
\* a nested pop cleared it), or on the pointer of a deleted object: undefined.
\* The loop reads the element the old storage held and calls through it, or
\* the process crashes.
Drain_Undefined(t) ==
    /\ At(t, {"create", "Instance"}, "drain")
    /\ Top(t).i <= Len(Top(t).snap)
    /\ \/ ~Top(t).valid
       \/ obj[Top(t).snap[Top(t).i]].st = "dead"
    /\ \/ InvokeHook(t, Top(t).snap[Top(t).i])
       \/ /\ Abort("ub:drain")
          /\ ev' = Ev("crash", Top(t).ty, 0, <<>>)

\* The loop reaches the end() it took when it started.
Drain_End(t) ==
    /\ At(t, {"create", "Instance"}, "drain")
    /\ Top(t).i > Len(Top(t).snap)
    /\ stack' = SetTop(stack, t, [Top(t) EXCEPT !.pc = "clear"])
    /\ ev' = NoEv
    /\ UnchHolder /\ UnchCoord /\ UnchColl /\ UnchGhost /\ UnchEnv
    /\ UNCHANGED <<obj, halted>>

\* singleton.h:143: s_classes_under_construction.clear()
Drain_Clear(t) ==
    /\ At(t, {"create", "Instance"}, "clear")
    /\ s_classes_under_construction' = <<>>
    /\ stack' = SetTop(InvalidateIterators(stack), t,
                       [Top(t) EXCEPT !.pc = "unlock"])
    /\ ev' = Ev("clear", Top(t).ty, 0, <<>>)
    /\ UNCHANGED s_construct_stack_size
    /\ UnchHolder /\ UnchColl /\ UnchGhost /\ UnchEnv
    /\ UNCHANGED <<obj, halted>>

\* The body of a postConstruction override returns.
Hook_Return(t) ==
    /\ Running(t)
    /\ InBody(t)
    /\ Top(t).k = "hook"
    /\ stack' = PopFrame(stack, t)
    /\ ev' = Ev("hook_ret", Top(t).ty, Top(t).p, <<>>)
    /\ UnchHolder /\ UnchCoord /\ UnchColl /\ UnchGhost /\ UnchEnv
    /\ UNCHANGED <<obj, halted>>

\* helper->mutex.unlock() of createInstance and Instance
Mutex_Unlock(t) ==
    /\ At(t, {"create", "Instance"}, "unlock")
    /\ mutex' = [mutex EXCEPT ![Top(t).ty] = 0]
    /\ stack' = SetTop(stack, t, [Top(t) EXCEPT !.pc = "ret"])
    /\ ev' = Ev("unlock", Top(t).ty, t, <<>>)
    /\ UNCHANGED wrapper
    /\ UnchCoord /\ UnchColl /\ UnchGhost /\ UnchEnv
    /\ UNCHANGED <<obj, halted>>

Bit(b) == IF b THEN 1 ELSE 0

\* return helper->wrapper;
CreateInstance_Return(t) ==
    /\ At(t, {"create"}, "ret")
    /\ stack' = PopFrame(stack, t)
    /\ completed' = [completed EXCEPT ![Top(t).ty] =
                         wrapper[Top(t).ty].raw_pointer]
    /\ ev' = Ev("create_ret", Top(t).ty, wrapper[Top(t).ty].raw_pointer,
                <<Bit(wrapper[Top(t).ty].initialized), Top(t).p>>)
    /\ UNCHANGED <<clock, collDestroyed>>
    /\ UnchHolder /\ UnchCoord /\ UnchColl /\ UnchEnv
    /\ UNCHANGED <<obj, halted>>

\* return helper->wrapper; the constructor and destructor of AutoCollectable
\* keep the returned copy to apply operator-> to it.
Instance_Return(t) ==
    /\ At(t, {"Instance"}, "ret")
    /\ LET T == Top(t).ty
           n == Len(stack[t])
           toItem == n > 1 /\ stack[t][n - 1].k \in {"itemctor", "itemdtor"}
       IN /\ stack' =
                IF toItem
                THEN [stack EXCEPT ![t] =
                        Append(SubSeq(@, 1, n - 2),
                               [stack[t][n - 1] EXCEPT !.w = wrapper[T],
                                                       !.pc = "deref"])]
                ELSE PopFrame(stack, t)
          /\ completed' = IF Top(t).p # 0
                          THEN [completed EXCEPT ![T] = wrapper[T].raw_pointer]
                          ELSE completed
          /\ ev' = Ev("Instance_ret", T, wrapper[T].raw_pointer,
                      <<Bit(wrapper[T].initialized), t>>)
    /\ UNCHANGED <<clock, collDestroyed>>
    /\ UnchHolder /\ UnchCoord /\ UnchColl /\ UnchEnv
    /\ UNCHANGED <<obj, halted>>

\* -------------------------------------------- Singleton::destructInstance
\* Faulty variant: the assertion forgets the initialized flag.
DestructPrecondition_PointerOnly(T) == wrapper[T].raw_pointer # 0

\* singleton.h:250: assert(raw_pointer != nullptr && initialized)
DestructPrecondition(T) ==
    wrapper[T].raw_pointer # 0 /\ wrapper[T].initialized

DestructInstance_Call(t, T) ==
    /\ CallSite(t)
    /\ stack' = PushFrame(stack, t, Frame("destruct", T, "assert", 0))
    /\ calls' = calls + 1
    /\ ev' = Ev("call_destruct", T, 0, <<>>)
    /\ UnchHolder /\ UnchCoord /\ UnchColl /\ UnchGhost
    /\ UNCHANGED <<obj, active, halted>>

DestructInstance_Assert(t) ==
    /\ At(t, {"destruct"}, "assert")
    /\ LET T == Top(t).ty IN
       IF DestructPrecondition(T)
       THEN /\ stack' = SetTop(stack, t, [Top(t) EXCEPT !.pc = "delete",
                                          !.p = wrapper[T].raw_pointer])
            /\ completed' = [completed EXCEPT ![T] = 0]
            /\ ev' = Ev("destruct_pass", T, wrapper[T].raw_pointer, <<>>)
            /\ UNCHANGED <<clock, collDestroyed>>
            /\ UnchHolder /\ UnchCoord /\ UnchColl /\ UnchEnv
            /\ UNCHANGED <<obj, halted>>
       ELSE /\ Abort("assert:destructInstance")
            /\ ev' = Ev("destruct_fail", T, 0, <<>>)

\* delete helper->wrapper.raw_pointer, on the pointer as the holder has it
\* now: the object's lifetime ends, its members (the Collector's m_container)
\* are destroyed and ~Singleton runs.  delete of a null pointer does nothing.
\* delete of an object another thread is already destroying is undefined: the
\* destructor runs again, or the process crashes.
DestructInstance_Delete(t) ==
    /\ At(t, {"destruct"}, "delete")
    /\ LET T == Top(t).ty
           p == wrapper[T].raw_pointer
       IN \/ /\ p = 0
             /\ stack' = SetTop(stack, t, [Top(t) EXCEPT !.pc = "ret"])
             /\ ev' = Ev("delete_null", T, 0, <<>>)
             /\ UnchHolder /\ UnchCoord /\ UnchColl /\ UnchGhost /\ UnchEnv
             /\ UNCHANGED <<obj, halted>>
          \/ /\ p # 0
             /\ stack' = PushFrame(SetTop(stack, t,
                                          [Top(t) EXCEPT !.pc = "ret",
                                                         !.p = p]), t,
                                   Frame("dtor", T, "assert1", p))
             /\ obj' = [obj EXCEPT ![p].st = "dead", ![p].dtors = @ + 1]
             /\ m_container' = IF T = "Coll" THEN {} ELSE m_container
             /\ collDestroyed' = (collDestroyed \/ T = "Coll")
             /\ ev' = Ev("delete", T, p, <<>>)
             /\ UNCHANGED <<m_registered_in_collector, itemAlive, clock,
                            completed>>
             /\ UnchHolder /\ UnchCoord /\ UnchEnv
             /\ UNCHANGED halted
          \/ /\ p # 0
             /\ obj[p].st = "dead"
             /\ Abort("ub:delete")
             /\ ev' = Ev("crash", T, p, <<>>)

\* singleton.h:303 and 308: assert(helper->wrapper.initialized)
Dtor_Assert(t) ==
    /\ \/ At(t, {"dtor"}, "assert1")
       \/ At(t, {"dtor"}, "assert2")
    /\ IF wrapper[Top(t).ty].initialized
       THEN /\ stack' = SetTop(stack, t,
                          [Top(t) EXCEPT !.pc = IF Top(t).pc = "assert1"
                                                THEN "lock" ELSE "reset_init"])
            /\ ev' = NoEv
            /\ UnchHolder /\ UnchCoord /\ UnchColl /\ UnchGhost /\ UnchEnv
            /\ UNCHANGED <<obj, halted>>
       ELSE /\ Abort("assert:~Singleton")
            /\ ev' = Ev("dtor_fail", Top(t).ty, 0, <<>>)

\* Faulty variant: ~Singleton clears the pointer before the initialized flag.
Dtor_ResetInitialized_PointerFirst(t) ==
    /\ At(t, {"dtor"}, "reset_init")
    /\ wrapper' = [wrapper EXCEPT ![Top(t).ty].raw_pointer = 0]
    /\ stack' = SetTop(stack, t, [Top(t) EXCEPT !.pc = "reset_ptr"])
    /\ ev' = NoEv
    /\ UNCHANGED mutex
    /\ UnchCoord /\ UnchColl /\ UnchGhost /\ UnchEnv
    /\ UNCHANGED <<obj, halted>>

\* singleton.h:309: helper->wrapper.initialized = false
Dtor_ResetInitialized(t) ==
    /\ At(t, {"dtor"}, "reset_init")
    /\ wrapper' = [wrapper EXCEPT ![Top(t).ty].initialized = FALSE]
    /\ stack' = SetTop(stack, t, [Top(t) EXCEPT !.pc = "reset_ptr"])
    /\ ev' = NoEv
    /\ UNCHANGED mutex
    /\ UnchCoord /\ UnchColl /\ UnchGhost /\ UnchEnv
    /\ UNCHANGED <<obj, halted>>

\* Faulty variant: ~Singleton leaves the holder's pointer in place.
Dtor_ResetPointer_Skipped(t) ==
    /\ At(t, {"dtor"}, "reset_ptr")
    /\ stack' = SetTop(stack, t, [Top(t) EXCEPT !.pc = "unlock"])
    /\ ev' = NoEv
    /\ UnchHolder /\ UnchCoord /\ UnchColl /\ UnchGhost /\ UnchEnv
    /\ UNCHANGED <<obj, halted>>

\* singleton.h:310: helper->wrapper.raw_pointer = nullptr
Dtor_ResetPointer(t) ==
    /\ At(t, {"dtor"}, "reset_ptr")
    /\ wrapper' = [wrapper EXCEPT ![Top(t).ty].raw_pointer = 0]
    /\ stack' = SetTop(stack, t, [Top(t) EXCEPT !.pc = "unlock"])
    /\ ev' = NoEv
    /\ UNCHANGED mutex
    /\ UnchCoord /\ UnchColl /\ UnchGhost /\ UnchEnv
    /\ UNCHANGED <<obj, halted>>

\* singleton.h:311: helper->mutex.unlock(), and ~Singleton returns
Dtor_Unlock(t) ==
    /\ At(t, {"dtor"}, "unlock")
    /\ mutex' = [mutex EXCEPT ![Top(t).ty] = 0]
    /\ stack' = PopFrame(stack, t)
    /\ ev' = Ev("unlock", Top(t).ty, t, <<>>)
    /\ UNCHANGED wrapper
    /\ UnchCoord /\ UnchColl /\ UnchGhost /\ UnchEnv
    /\ UNCHANGED <<obj, halted>>

\* delete has released the storage; destructInstance returns.
DestructInstance_Return(t) ==
    /\ At(t, {"destruct"}, "ret")
    /\ stack' = PopFrame(stack, t)
    /\ ev' = Ev("destruct_ret", Top(t).ty, Top(t).p, <<>>)
    /\ UnchHolder /\ UnchCoord /\ UnchColl /\ UnchGhost /\ UnchEnv
    /\ UNCHANGED <<obj, halted>>

\* ------------------------- Singleton::getInstance, getInstanceDuringBuilding
\* Faulty variant: the assertion forgets the initialized flag.
GetInstancePrecondition_PointerOnly(T) == wrapper[T].raw_pointer # 0

\* singleton.h:276: assert(raw_pointer != nullptr && initialized)
GetInstancePrecondition(T) ==
    wrapper[T].raw_pointer # 0 /\ wrapper[T].initialized

GetInstance(t, T) ==
    /\ CallSite(t)
    /\ IF GetInstancePrecondition(T)
       THEN /\ calls' = calls + 1
            /\ ev' = Ev("get", T, wrapper[T].raw_pointer, <<>>)
            /\ UnchHolder /\ UnchCoord /\ UnchColl /\ UnchGhost
            /\ UNCHANGED <<obj, stack, active, halted>>
       ELSE /\ Abort("assert:getInstance")
            /\ ev' = Ev("get_fail", T, 0, <<>>)

\* Faulty variant: getInstanceDuringBuilding checks the pointer only.
GetInstanceDuringBuildingPrecondition_PointerOnly(T) ==
    wrapper[T].raw_pointer # 0

\* singleton.h:292: assert(raw_pointer != nullptr && !initialized)
GetInstanceDuringBuildingPrecondition(T) ==
    wrapper[T].raw_pointer # 0 /\ ~wrapper[T].initialized

GetInstanceDuringBuilding(t, T) ==
    /\ CallSite(t)
    /\ IF GetInstanceDuringBuildingPrecondition(T)
       THEN /\ calls' = calls + 1
            /\ ev' = Ev("getDB", T, wrapper[T].raw_pointer, <<>>)
            /\ UnchHolder /\ UnchCoord /\ UnchColl /\ UnchGhost
            /\ UNCHANGED <<obj, stack, active, halted>>
       ELSE /\ Abort("assert:getInstanceDuringBuilding")
            /\ ev' = Ev("getDB_fail", T, 0, <<>>)

\* ------------------------------------------- AutoCollectable and Collector
\* AutoCollectable(): Collector<Type>::Instance()->insert(this), on the item
\* being constructed at address a.  Storage that holds a live item may be
\* constructed in again (placement new); m_registered_in_collector{false}.
AutoCollectable_Ctor(t, a) ==
    /\ ItemSite(t)
    /\ stack' = PushFrame(PushFrame(stack, t,
                              Frame("itemctor", "Coll", "wait", a)), t,
                          Frame("Instance", "Coll", "check1", 0))
    /\ m_registered_in_collector' =
           [m_registered_in_collector EXCEPT ![a] = FALSE]
    /\ calls' = calls + 1
    /\ ev' = Ev("call_itemctor", "Coll", a, <<>>)
    /\ UNCHANGED <<m_container, itemAlive>>
    /\ UnchHolder /\ UnchCoord /\ UnchGhost
    /\ UNCHANGED <<obj, active, halted>>

\* ~AutoCollectable(): if (m_registered_in_collector)
\*     Collector<Type>::Instance()->erase(this)
AutoCollectable_Dtor(t, a) ==
    /\ ItemSite(t)
    /\ a \in itemAlive
    /\ itemAlive' = itemAlive \ {a}
    /\ stack' = IF m_registered_in_collector[a]
                THEN PushFrame(PushFrame(stack, t,
                                   Frame("itemdtor", "Coll", "wait", a)), t,
                               Frame("Instance", "Coll", "check1", 0))
                ELSE stack
    /\ calls' = calls + 1
    /\ ev' = Ev("call_itemdtor", "Coll", a, <<>>)
    /\ UNCHANGED <<m_container, m_registered_in_collector>>
    /\ UnchHolder /\ UnchCoord /\ UnchGhost
    /\ UNCHANGED <<obj, active, halted>>

\* PointerWrapper::operator->: assert(initialized == true), on the copy that
\* Instance() returned.
PointerWrapper_Arrow(t) ==
    /\ At(t, {"itemctor", "itemdtor"}, "deref")
    /\ IF Top(t).w.initialized
       THEN /\ stack' = SetTop(stack, t, [Top(t) EXCEPT !.pc = "op"])
            /\ ev' = NoEv
            /\ UnchHolder /\ UnchCoord /\ UnchColl /\ UnchGhost /\ UnchEnv
            /\ UNCHANGED <<obj, halted>>
       ELSE /\ Abort("assert:operator->")
            /\ ev' = Ev("arrow_fail", "Coll", 0, <<>>)

\* Faulty variant: insert reports success whatever the container held.
InsertSuccess_Always(c) == TRUE

\* collectable.h:21: m_container.insert(c).second
InsertSuccess(c) == c \notin m_container

\* Collector::insert, then the constructor stores its result and returns.
Collector_insert(t) ==
    /\ At(t, {"itemctor"}, "op")
    /\ LET c == Top(t).p IN
       IF InsertSuccess(c)
       THEN /\ m_container' = m_container \cup {c}
            /\ m_registered_in_collector' =
                   [m_registered_in_collector EXCEPT ![c] = TRUE]
            /\ itemAlive' = itemAlive \cup {c}
            /\ stack' = PopFrame(stack, t)
            /\ ev' = Ev("insert", "Coll", c,
                        <<Bit(c \in m_container), Cardinality(m_container)>>)
            /\ UnchHolder /\ UnchCoord /\ UnchGhost /\ UnchEnv
            /\ UNCHANGED <<obj, halted>>
       ELSE /\ Abort("assert:insert")
            /\ ev' = Ev("insert_fail", "Coll", c,
                        <<Bit(c \in m_container), Cardinality(m_container)>>)

\* collectable.h:34: m_container.find(c) != m_container.end()
EraseFound(c) == c \in m_container

\* Faulty variant: erase finds the member and leaves it in the container.
Collector_erase_KeepsMember(t) ==
    /\ At(t, {"itemdtor"}, "op")
    /\ LET c == Top(t).p IN
       IF c \in m_container
       THEN /\ stack' = PopFrame(stack, t)
            /\ ev' = Ev("erase", "Coll", c,
                        <<Bit(c \in m_container), Cardinality(m_container)>>)
            /\ UnchColl
            /\ UnchHolder /\ UnchCoord /\ UnchGhost /\ UnchEnv
            /\ UNCHANGED <<obj, halted>>
       ELSE /\ Abort("assert:erase")
            /\ ev' = Ev("erase_fail", "Coll", c,
                        <<Bit(c \in m_container), Cardinality(m_container)>>)

\* Collector::erase, then the destructor stores its result and returns.
Collector_erase(t) ==
    /\ At(t, {"itemdtor"}, "op")
    /\ LET c == Top(t).p IN
       IF EraseFound(c)
       THEN /\ m_container' = m_container \ {c}
            /\ stack' = PopFrame(stack, t)
            /\ ev' = Ev("erase", "Coll", c,
                        <<Bit(c \in m_container), Cardinality(m_container)>>)
            /\ UNCHANGED <<m_registered_in_collector, itemAlive>>
            /\ UnchHolder /\ UnchCoord /\ UnchGhost /\ UnchEnv
            /\ UNCHANGED <<obj, halted>>
       ELSE /\ Abort("assert:erase")
            /\ ev' = Ev("erase_fail", "Coll", c,
                        <<Bit(c \in m_container), Cardinality(m_container)>>)

\* The sequences that visit every element of set S once, in any order
\* (std::unordered_set iteration order is unspecified).
Orders(S) ==
    {f \in [1..Cardinality(S) -> S] :
        \A i, j \in 1..Cardinality(S) : i # j => f[i] # f[j]}

\* for (Item *item : *Collector<Item>::getInstance()), as the demo programs do
Collector_iterate(t) ==
    /\ ItemSite(t)
    /\ IF GetInstancePrecondition("Coll")
       THEN /\ calls' = calls + 1
            /\ \E visit \in Orders(m_container) :
                   ev' = Ev("iterate", "Coll", Len(visit), visit)
            /\ UnchHolder /\ UnchCoord /\ UnchColl /\ UnchGhost
            /\ UNCHANGED <<obj, stack, active, halted>>
       ELSE /\ Abort("assert:getInstance")
            /\ ev' = Ev("get_fail", "Coll", 0, <<>>)

\* ------------------------------------------------------- process teardown
\* singleton.h:106-110: main has returned and the function-local static
\* holders are destroyed; each ~InstanceSafetyHelper asserts that its wrapper
\* is empty.
HelperEmpty(T) == ~wrapper[T].initialized /\ wrapper[T].raw_pointer = 0

Process_Exit(t) ==
    /\ Running(t)
    /\ active = {t}
    /\ stack[t] = <<>>
    /\ IF \A T \in Types : HelperEmpty(T)
       THEN /\ Abort("exit")
            /\ ev' = Ev("exit", "", 0, <<>>)
       ELSE /\ Abort("assert:~InstanceSafetyHelper")
            /\ ev' = Ev("exit_fail", "", 0, <<>>)

\* ------------------------------------------------------------------- Next
Next ==
    \E t \in Threads :
        \/ \E T \in Types : CreateInstance_Call(t, T)
        \/ CreateInstance_Assert1(t)
        \/ Mutex_Lock(t)
        \/ Mutex_Relock(t)
        \/ CreateInstance_Assert2(t)
        \/ \E T \in Types : Instance_Call(t, T)
        \/ Instance_Check1(t)
        \/ Instance_Check2(t)
        \/ Construct_Alloc(t)
        \/ Push_Inc(t)
        \/ Push_Back(t)
        \/ Construct_Ctor(t)
        \/ Ctor_Return(t)
        \/ Construct_Init(t)
        \/ Pop_Assert(t)
        \/ Pop_Dec(t)
        \/ Drain_Hook(t)
        \/ Drain_Undefined(t)
        \/ Drain_End(t)
        \/ Drain_Clear(t)
        \/ Hook_Return(t)
        \/ Mutex_Unlock(t)
        \/ CreateInstance_Return(t)
        \/ Instance_Return(t)
        \/ \E T \in Types : DestructInstance_Call(t, T)
        \/ DestructInstance_Assert(t)
        \/ DestructInstance_Delete(t)
        \/ Dtor_Assert(t)
        \/ Dtor_ResetInitialized(t)
        \/ Dtor_ResetPointer(t)
        \/ Dtor_Unlock(t)
        \/ DestructInstance_Return(t)
        \/ \E T \in Types : GetInstance(t, T)
        \/ \E T \in Types : GetInstanceDuringBuilding(t, T)
        \/ \E a \in Addrs : AutoCollectable_Ctor(t, a)
        \/ \E a \in Addrs : AutoCollectable_Dtor(t, a)
        \/ PointerWrapper_Arrow(t)
        \/ Collector_insert(t)
        \/ Collector_erase(t)
        \/ Collector_iterate(t)
        \/ Process_Exit(t)

Spec == Init /\ [][Next]_vars

\* ------------------------------------------------------------ two threads
\* Two threads of one process use the singleton types A and B.  The main
\* thread has either created A with createInstance before the second thread
\* starts, or created nothing.
TypesMT == {"A", "B"}

InitMT ==
    \E pre \in BOOLEAN :
        /\ wrapper = [T \in Types |->
                         IF pre /\ T = "A"
                         THEN [initialized |-> TRUE, raw_pointer |-> 1]
                         ELSE NullWrapper]
        /\ mutex = [T \in Types |-> 0]
        /\ s_construct_stack_size = 0
        /\ s_classes_under_construction = <<>>
        /\ m_container = {}
        /\ m_registered_in_collector = [a \in Addrs |-> FALSE]
        /\ itemAlive = {}
        /\ obj = IF pre
                 THEN <<[ty |-> "A", st |-> "alive", hooks |-> 1,
                         started |-> 1, done |-> 2, dtors |-> 0, by |-> 0]>>
                 ELSE <<>>
        /\ stack = [t \in Threads |-> <<>>]
        /\ active = Threads
        /\ halted = ""
        /\ calls = 0
        /\ clock = IF pre THEN 2 ELSE 0
        /\ completed = [T \in Types |-> IF pre /\ T = "A" THEN 1 ELSE 0]
        /\ collDestroyed = FALSE
        /\ ev = NoEv

NextMT ==
    \E t \in Threads :
        \/ \E T \in TypesMT : CreateInstance_Call(t, T)
        \/ CreateInstance_Assert1(t)
        \/ Mutex_Lock(t)
        \/ Mutex_Relock(t)
        \/ CreateInstance_Assert2(t)
        \/ \E T \in TypesMT : Instance_Call(t, T)
        \/ Instance_Check1(t)
        \/ Instance_Check2(t)
        \/ Construct_Alloc(t)
        \/ Push_Inc(t)
        \/ Push_Back(t)
        \/ Construct_Ctor(t)
        \/ Ctor_Return(t)
        \/ Construct_Init(t)
        \/ Pop_Assert(t)
        \/ Pop_Dec(t)
        \/ Drain_Hook(t)
        \/ Drain_Undefined(t)
        \/ Drain_End(t)
        \/ Drain_Clear(t)
        \/ Hook_Return(t)
        \/ Mutex_Unlock(t)
        \/ CreateInstance_Return(t)
        \/ Instance_Return(t)
        \/ \E T \in TypesMT : DestructInstance_Call(t, T)
        \/ DestructInstance_Assert(t)
        \/ DestructInstance_Delete(t)
        \/ Dtor_Assert(t)
        \/ Dtor_ResetInitialized(t)
        \/ Dtor_ResetPointer(t)
        \/ Dtor_Unlock(t)
        \/ DestructInstance_Return(t)
        \/ \E T \in TypesMT : GetInstance(t, T)
        \/ \E T \in TypesMT : GetInstanceDuringBuilding(t, T)

SpecMT == InitMT /\ [][NextMT]_vars

\* ================================================================ claims
\* The objects of type T that exist: allocated and not deleted.
Existing(T) == {i \in 1..Len(obj) : obj[i].ty = T /\ obj[i].st # "dead"}

Deleted(T) == {i \in 1..Len(obj) : obj[i].ty = T /\ obj[i].st = "dead"}

\* Thread t has just entered a hook (the last step invoked it).
HookEntered(t) ==
    /\ ev.op = "hook"
    /\ stack[t] # <<>>
    /\ Top(t).k = "hook"
    /\ Top(t).p = ev.val

\* C1: getInstance<T> returns only the pointer of a T object whose
\* construction has completed and that has not been destroyed (so it fails by
\* assertion before any creation and after destructInstance, and never
\* returns a stale pointer); from a completed createInstance<T> to the next
\* destructInstance<T> it does not fail and returns the pointer that
\* createInstance returned, on every call.
C1_GetInstance ==
    /\ ev.op = "get" =>
          /\ ev.val \in 1..Len(obj)
          /\ obj[ev.val].ty = ev.ty
          /\ obj[ev.val].st = "alive"
          /\ completed[ev.ty] # 0 => ev.val = completed[ev.ty]
    /\ ev.op = "get_fail" => completed[ev.ty] = 0

\* getInstance fails by assertion after the instance was destroyed.
C1_Witness ==
    /\ ev.op = "get_fail"
    /\ halted = "assert:getInstance"
    /\ Deleted(ev.ty) # {}
    /\ Existing(ev.ty) = {}

\* C2: createInstance<T> passes its assertion only while no T object exists,
\* and at no time do two T objects exist: a second createInstance<T> with no
\* destructInstance in between fails by assertion and constructs nothing.
C2_SecondCreateAsserts ==
    /\ ev.op = "create_pass" => Existing(ev.ty) = {}
    /\ \A T \in Types : Cardinality(Existing(T)) <= 1

\* A createInstance that found the holder occupied by a completed instance
\* stopped on the assertion.
C2_Witness ==
    /\ ev.op = "create_fail"
    /\ halted = "assert:createInstance"
    /\ completed[ev.ty] # 0
    /\ Cardinality(Existing(ev.ty)) = 1

\* C3: when the hook of an object B that was created inside the constructor of
\* an object A (not deleted since) runs, A is initialized, A's constructor is
\* no longer running, and A::getInstance called from that hook does not fail
\* but returns A.
C3_ReentrantConstruction ==
    \A t \in active :
        (/\ stack[t] # <<>>
         /\ Top(t).k = "hook"
         /\ obj[Top(t).p].by # 0
         /\ obj[obj[Top(t).p].by].st # "dead")
        => LET a == obj[Top(t).p].by
               T == obj[a].ty
           IN /\ wrapper[T] = [initialized |-> TRUE, raw_pointer |-> a]
              /\ obj[a].st = "alive"
              /\ \A j \in 1..Len(stack[t]) :
                     ~(stack[t][j].k = "ctor" /\ stack[t][j].p = a)
              /\ ev.ty = T => /\ ev.op # "get_fail"
                              /\ ev.op = "get" => ev.val = a

\* B's hook, B created by A's constructor, has called A::getInstance and got A.
C3_Witness ==
    \E t \in active :
        /\ stack[t] # <<>>
        /\ Top(t).k = "hook"
        /\ obj[Top(t).p].by # 0
        /\ ev.op = "get"
        /\ ev.val = obj[Top(t).p].by

\* C4: at the moment a hook is invoked the nesting depth is zero, and every
\* singleton pushed onto the coordinator in the chain (and not deleted since)
\* is initialized and is the instance its holder points to.
C4_HooksAfterInitialization ==
    \A t \in active :
        HookEntered(t) =>
            /\ s_construct_stack_size = 0
            /\ \A k \in 1..Len(Below(t).snap) :
                   LET o == Below(t).snap[k] IN
                   obj[o].st # "dead" =>
                       wrapper[obj[o].ty] =
                           [initialized |-> TRUE, raw_pointer |-> o]
            /\ \A k \in 1..Len(s_classes_under_construction) :
                   LET o == s_classes_under_construction[k] IN
                   obj[o].st # "dead" =>
                       wrapper[obj[o].ty] =
                           [initialized |-> TRUE, raw_pointer |-> o]

\* A hook is invoked for a chain in which two singletons were pushed.
C4_Witness ==
    \E t \in active :
        /\ HookEntered(t)
        /\ Len(Below(t).snap) >= 2
        /\ \A k \in 1..Len(Below(t).snap) : obj[Below(t).snap[k]].st = "alive"

\* C5 (amended): the hooks of one drain run in the order in which the objects
\* were pushed, that is in which their constructions began; the hook of an
\* object created inside another object's constructor runs after the hook of
\* that outer object (for A whose constructor creates B: A's hook, then B's).
C5_HooksInStartOrder ==
    ev.op = "hook" =>
        /\ ev.aux # <<>> => obj[ev.aux[1]].started < obj[ev.val].started
        /\ obj[ev.val].by # 0 => obj[obj[ev.val].by].hooks >= 1

\* C5 as stated: the hooks run in the order in which the constructors
\* completed, the hook of the outer createInstance caller last (B's hook
\* before A's).
C5_HooksInCompletionOrder ==
    ev.op = "hook" =>
        /\ ev.aux # <<>> => obj[ev.aux[1]].done < obj[ev.val].done
        /\ obj[ev.val].by # 0 => obj[obj[ev.val].by].hooks = 0

\* The hook of an object created inside another object's constructor is
\* invoked, in a loop that invoked a hook before it.
C5_Witness ==
    /\ ev.op = "hook"
    /\ ev.aux # <<>>
    /\ obj[ev.val].by # 0
    /\ obj[ev.val].by = ev.aux[1]

\* C6: the post-construction hook of every constructed singleton is invoked
\* exactly once per construction: never twice, and once the program is back
\* at its top level, once for every object whose constructor has completed.
C6_HookExactlyOnce ==
    \A i \in 1..Len(obj) :
        /\ obj[i].hooks <= 1
        /\ ((\A t \in active : stack[t] = <<>>) /\ obj[i].st # "building")
               => obj[i].hooks = 1

\* C7: while only tracked instances are constructed and destroyed (the
\* Collector itself is not destroyed) and no item constructor or destructor is
\* under way, the registry's members are exactly the alive instances;
\* a registration adds exactly the new instance, a deregistration removes
\* exactly that instance, and an iteration visits every alive instance once.
C7_RegistryTracksAlive ==
    (~collDestroyed) =>
        /\ (\A t \in active : \A j \in 1..Len(stack[t]) :
                stack[t][j].k \notin {"itemctor", "itemdtor"})
               => m_container = itemAlive
        /\ ev.op = "insert" =>
               /\ Cardinality(m_container) = ev.aux[2] + 1
               /\ ev.val \in m_container
        /\ ev.op = "erase" =>
               /\ Cardinality(m_container) = ev.aux[2] - 1
               /\ ev.val \notin m_container
               /\ m_container = itemAlive
        /\ ev.op = "iterate" =>
               /\ ev.val = Cardinality(itemAlive)
               /\ {ev.aux[k] : k \in 1..Len(ev.aux)} = itemAlive
               /\ \A j, k \in 1..Len(ev.aux) : j # k => ev.aux[j] # ev.aux[k]

\* One of two constructed instances has been destroyed: one is left.
C7_Witness ==
    /\ ~collDestroyed
    /\ ev.op = "erase"
    /\ ev.aux[2] >= 2
    /\ Cardinality(itemAlive) = ev.aux[2] - 1
    /\ m_container = itemAlive

\* C8: registering an instance that is already a member and deregistering
\* one that is not a member both stop on a fatal assertion, and leave the
\* member set as it was.
C8_MembershipAsserted ==
    /\ (ev.op \in {"insert", "insert_fail"} /\ ev.aux[1] = 1) =>
           /\ halted = "assert:insert"
           /\ ev.val \in m_container
           /\ Cardinality(m_container) = ev.aux[2]
    /\ (ev.op \in {"erase", "erase_fail"} /\ ev.aux[1] = 0) =>
           /\ halted = "assert:erase"
           /\ ev.val \notin m_container
           /\ Cardinality(m_container) = ev.aux[2]

\* A second registration of a registered instance stopped on the assertion.
C8_Witness ==
    /\ ev.op = "insert_fail"
    /\ ev.val \in itemAlive
    /\ ev.val \in m_container
    /\ halted = "assert:insert"

\* C9: destructInstance<T> passes its assertion only on a T object whose
\* construction completed; when it returns the holder is empty; a
\* createInstance<T> after it returns an initialized wrapper to the object it
\* has just constructed, and getInstance<T> returns an existing object, never
\* the deleted one.
C9_DestructRoundTrip ==
    /\ ev.op = "destruct_pass" =>
           /\ obj[ev.val].ty = ev.ty
           /\ obj[ev.val].st = "alive"
    /\ ev.op = "destruct_ret" =>
           /\ wrapper[ev.ty] = NullWrapper
           /\ Existing(ev.ty) = {}
    /\ ev.op = "create_ret" =>
           /\ ev.aux = <<1, ev.val>>
           /\ ev.val \in Existing(ev.ty)
           /\ wrapper[ev.ty] = [initialized |-> TRUE, raw_pointer |-> ev.val]
    /\ (ev.op = "get" /\ Deleted(ev.ty) # {}) =>
           /\ ev.val \notin Deleted(ev.ty)
           /\ ev.val \in Existing(ev.ty)

\* create, destroy, create, then getInstance returns the second instance.
C9_Witness ==
    /\ ev.op = "get"
    /\ Deleted(ev.ty) # {}
    /\ completed[ev.ty] = ev.val

\* C10: a createInstance<T> or destructInstance<T> called while T's
\* constructor runs never gets past its first assertion: it does not reach
\* the lock of T's guard, and no ~Singleton<T> is started.
C10_OwnTypeReentryAsserts ==
    \A t \in active : \A j, k \in 1..Len(stack[t]) :
        (/\ j < k
         /\ stack[t][j].k = "ctor"
         /\ stack[t][k].ty = stack[t][j].ty)
        => /\ stack[t][k].k = "create" => stack[t][k].pc = "assert1"
           /\ stack[t][k].k = "destruct" => stack[t][k].pc = "assert"
           /\ stack[t][k].k # "dtor"

\* T's constructor called createInstance<T>, which stopped on the assertion.
C10_Witness ==
    \E t \in active :
        /\ Len(stack[t]) >= 2
        /\ Top(t).k = "create"
        /\ Below(t).k = "ctor"
        /\ Below(t).ty = Top(t).ty
        /\ halted = "assert:createInstance"

\* The thread t is in the body of the constructor of a T object.
InOwnCtor(t, T) == InBody(t) /\ Top(t).k = "ctor" /\ Top(t).ty = T

\* C11: getInstance<T> returns iff T's pointer is non-null and initialized is
\* true, getInstanceDuringBuilding<T> returns iff the pointer is non-null and
\* initialized is false, and otherwise each fails by assertion; in no state
\* can both succeed.  While T's own constructor body runs, getInstance<T>
\* cannot succeed and getInstanceDuringBuilding<T> can, and returns the object
\* under construction.
C11_AccessorsExclusive ==
    /\ ev.op = "get" =>
          /\ wrapper[ev.ty].raw_pointer # 0 /\ wrapper[ev.ty].initialized
          /\ ev.val = wrapper[ev.ty].raw_pointer
    /\ ev.op = "get_fail" =>
          ~(wrapper[ev.ty].raw_pointer # 0 /\ wrapper[ev.ty].initialized)
    /\ ev.op = "getDB" =>
          /\ wrapper[ev.ty].raw_pointer # 0 /\ ~wrapper[ev.ty].initialized
          /\ ev.val = wrapper[ev.ty].raw_pointer
          /\ obj[ev.val].st = "building"
    /\ ev.op = "getDB_fail" =>
          ~(wrapper[ev.ty].raw_pointer # 0 /\ ~wrapper[ev.ty].initialized)
    /\ \A T \in Types :
          ~(GetInstancePrecondition(T)
              /\ GetInstanceDuringBuildingPrecondition(T))
    /\ \A t \in Threads : \A T \in Types :
          InOwnCtor(t, T) =>
              /\ ~GetInstancePrecondition(T)
              /\ GetInstanceDuringBuildingPrecondition(T)
              /\ wrapper[T].raw_pointer = Top(t).p

\* getInstanceDuringBuilding<T>, called in T's own constructor, has returned
\* the object under construction.
C11_Witness ==
    /\ ev.op = "getDB"
    /\ halted = ""
    /\ InOwnCtor(1, ev.ty)
    /\ Top(1).p = ev.val

\* The thread t is blocked in std::mutex::lock() and no step of the program
\* can release it: it waits for a mutex it owns itself, or for a mutex whose
\* owner is blocked on a mutex that t owns or on its own.
WaitsForever(t) ==
    /\ stack[t] # <<>>
    /\ \/ Top(t).pc = "deadlocked"
       \/ /\ Top(t).pc = "lock"
          /\ LET u == mutex[Top(t).ty] IN
                /\ u \in Threads \ {t}
                /\ stack[u] # <<>>
                /\ \/ Top(u).pc = "deadlocked"
                   \/ Top(u).pc = "lock" /\ mutex[Top(u).ty] = t

\* C12: no call of createInstance, Instance, getInstance or destructInstance,
\* nested in constructors and hooks in any way, brings a thread to wait
\* forever for a per-type mutex.
C12_NoThreadWaitsForever ==
    \A t \in Threads : ~WaitsForever(t)

\* Client code of thread t is running: the thread is between two library
\* calls, or in the body of a constructor or of a post-construction hook.
ClientCode(t) == Running(t) /\ (stack[t] = <<>> \/ InBody(t))

\* C13: the nesting depth is never negative, and whenever client code runs
\* (a running post-construction hook included) the pending sequence is
\* non-empty only if the depth is positive: the drain-and-clear at depth zero
\* is one step to every observer.
C13_PendingOnlyWhileNested ==
    /\ s_construct_stack_size >= 0
    /\ \A t \in Threads :
          ClientCode(t) /\ s_classes_under_construction # <<>>
              => s_construct_stack_size > 0

\* The thread t has a frame of one of the kinds in flight for type T.
InCall(t, kinds, T) ==
    \E n \in 1..Len(stack[t]) :
        stack[t][n].k \in kinds /\ stack[t][n].ty = T

\* C14: whatever steps of createInstance, Instance and destructInstance two
\* threads interleave, a holder whose initialized flag is true has a non-null
\* pointer.
C14_InitializedImpliesPointer ==
    \A T \in Types : wrapper[T].initialized => wrapper[T].raw_pointer # 0

\* One thread has just marked T's holder initialized while the other thread
\* is inside destructInstance<T>.
C14_Witness ==
    /\ ev.op = "init"
    /\ wrapper[ev.ty].initialized
    /\ \E t \in Threads : \E u \in Threads \ {t} :
          /\ InCall(t, {"create", "Instance"}, ev.ty)
          /\ InCall(u, {"destruct"}, ev.ty)

\* The frames of createInstance<T> and Instance<T> that have stored the
\* pointer and not yet set initialized.
Constructing(T) ==
    {f \in UNION {{<<t, n>> : n \in 1..Len(stack[t])} : t \in Threads} :
        /\ stack[f[1]][f[2]].k \in {"create", "Instance"}
        /\ stack[f[1]][f[2]].ty = T
        /\ stack[f[1]][f[2]].pc \in {"push_inc", "push_back", "ctor", "init"}}

\* C15: with two threads calling Instance<T> and createInstance<T>, at most one
\* call at a time is between storing T's pointer and setting initialized, at
\* most one T object exists, and as long as no T object was destroyed only one
\* T object was ever constructed and every Instance<T> call returns its
\* pointer.
C15_ConstructedOnce ==
    /\ \A T \in Types :
          /\ Cardinality(Constructing(T)) <= 1
          /\ Cardinality(Existing(T)) <= 1
          /\ Deleted(T) = {} => Cardinality(Existing(T) \cup Deleted(T)) <= 1
    /\ ev.op = "Instance_ret" /\ Deleted(ev.ty) = {}
          => Existing(ev.ty) = {ev.val}

\* Instance<T> has returned to one thread the pointer of the T object that a
\* call of the other thread, still in flight, allocated.
C15_Witness ==
    /\ ev.op = "Instance_ret"
    /\ Deleted(ev.ty) = {}
    /\ Existing(ev.ty) = {ev.val}
    /\ \E u \in Threads \ {ev.aux[2]} :
          \E n \in 1..Len(stack[u]) :
              /\ stack[u][n].k \in {"create", "Instance"}
              /\ stack[u][n].ty = ev.ty
              /\ stack[u][n].p = ev.val

\* C16: when Instance<T> returns to a thread that is not executing T's
\* constructor, while the other thread may be constructing T and no T object
\* was destroyed, the wrapper it returns has initialized = true.
C16_InstanceReturnsInitialized ==
    /\ ev.op = "Instance_ret"
    /\ ~InCall(ev.aux[2], {"ctor"}, ev.ty)
    /\ Deleted(ev.ty) = {}
    => ev.aux[1] = 1

\* The run so far is two createInstance calls and nothing else, made at top
\* level by the two threads for different types: the one of thread t has
\* just returned, the one of the other thread is in flight or has returned,
\* and no constructor or hook has made a call.
ParallelCreates(t) ==
    /\ calls = 2
    /\ Len(obj) = 2
    /\ obj[1].ty # obj[2].ty
    /\ stack[t] = <<>>
    /\ \E u \in Threads \ {t} :
          \/ /\ stack[u] # <<>>
             /\ stack[u][1].k = "create"
             /\ stack[u][1].p \in {1, 2} \ {ev.aux[2]}
          \/ /\ stack[u] = <<>>
             /\ \A T \in {obj[1].ty, obj[2].ty} : completed[T] # 0

\* C17: when two threads construct singletons of different types in parallel
\* with createInstance and neither constructor nests a construction, the
\* post-construction hook of each singleton has run exactly once when that
\* singleton's createInstance returns.
C17_ParallelHooksOnce ==
    \A t \in Threads :
        ev.op = "create_ret" /\ ParallelCreates(t)
            => obj[ev.aux[2]].hooks = 1

\* The destructInstance calls that have passed the assertion of
\* destructInstance and started to destroy the object id.
Destroying(id) ==
    {f \in UNION {{<<t, n>> : n \in 1..Len(stack[t])} : t \in Threads} :
        /\ stack[f[1]][f[2]].k = "dtor"
        /\ stack[f[1]][f[2]].p = id}

\* C18: when two threads call destructInstance<T> on the same initialized
\* instance, its destructor is run at most once, and at most one of the calls
\* gets as far as destroying the object: the other stops on an assertion
\* first.
C18_DestroyedOnce ==
    \A id \in 1..Len(obj) :
        /\ obj[id].dtors <= 1
        /\ Cardinality(Destroying(id)) <= 1

\* The program did what the demo programs do and nothing else: it constructed
\* tracked items, which created the Collector through Instance(), possibly
\* iterated the registry, destroyed every item, and never destroyed the
\* Collector.
DemoRun ==
    /\ Len(obj) = 1
    /\ obj[1].ty = "Coll"
    /\ obj[1].st = "alive"
    /\ \E a \in Addrs : m_registered_in_collector[a]
    /\ itemAlive = {}
    /\ m_container = {}

\* C19: a program that only constructs tracked items, iterates the registry
\* and destroys all the items reaches teardown with every holder empty, so
\* the assertion of ~InstanceSafetyHelper passes and the process exits
\* normally.
C19_DemoTeardown ==
    ev.op \in {"exit", "exit_fail"} /\ DemoRun
        => /\ \A T \in Types : HelperEmpty(T)
           /\ halted = "exit"

====
